---- MODULE Spec2Model ----
(***************************************************************************)
(* ssl-cert-server: the managed-certificate cache (server/managed.go) and  *)
(* the host-policy composer (config.go).                                    *)
(*                                                                         *)
(* Spec        the cache: concurrent Get / OCSP refresh callers, detached  *)
(*             reload goroutines, the clock and the storage behind         *)
(*             LoadCertificateFromStore.                                   *)
(* SpecPolicy  buildHostPolicy on every small configuration, and the       *)
(*             composed HostPolicy applied to every host.                  *)
(***************************************************************************)
EXTENDS Naturals, Integers, Sequences, FiniteSets, Bags, TLC

\* ---- bounds of the model
NumCallers == 2    \* concurrent callers of Get / of the OCSP refresh callback
MaxCalls == 3      \* calls started in one behaviour
MaxVer == 2        \* versions of a key's certificate the storage goes through
MaxNow == 302      \* last clock value, in seconds
MaxList == 2       \* longest Domains / REPatterns list of a configuration

\* ---- server/managed.go:15
reloadInterval == 300

Callers == 1..NumCallers
Keys == {"a", "b"}

\* The clock values time.Now().Unix() is observed at: the start, and both
\* sides of the reload threshold of a certificate loaded at the start.
Times == {t \in 1..MaxNow : t = 1 \/ t > reloadInterval}

\* *tls.Certificate values: the certificate of a key in one version; nil.
NilCert == [key |-> "", ver |-> 0]
Cert(k, v) == [key |-> k, ver |-> v]

NoErr == "nil"

VARIABLES
    \* ---- config.go
    Cfg,          \* the options of *config that setupDefaultOptions reads and writes
    CfgRead,      \* history: Cfg as yaml.UnmarshalStrict left it
    defaulted,    \* history: setupDefaultOptions has run
    Domains,      \* p.LetsEncrypt.Domains
    REPatterns,   \* p.LetsEncrypt.REPatterns
    HostPolicy,   \* p.LetsEncrypt.HostPolicy, as built by buildHostPolicy
    host,         \* the host of the last HostPolicy call
    err,          \* the error that call returned
    evaluated,    \* the sub-policies that call evaluated, in order
    \* ---- server/managed.go
    heap,         \* the managedCert objects: sync.Mutex, cert, loadAt
    cache,        \* p.cache: key -> managedCert (index into heap, 0: absent)
    reloads,      \* the reloadManagedCertificate goroutines alive (a bag)
    pc,           \* each caller's position (line of managed.go)
    mode,         \* "Get", or "Refresh" for the OCSP callback
    certKey,      \* each caller's certKey
    mngCert,      \* each caller's mngCert
    tlscert,      \* each caller's tlscert
    ret,          \* what each caller's call returned
    \* ---- collaborators
    now,          \* time.Now().Unix()
    stor,         \* the version of each key's certificate the storage holds
    watches,      \* the OCSPManager's registered watches
    \* ---- observations (history)
    obs,          \* per call: what the caller saw and did
    stats,        \* per key: calls counted
    ncalls        \* calls started

cfgVars == <<Cfg, CfgRead, defaulted>>
polVars == <<Domains, REPatterns, HostPolicy, host, err, evaluated>>
callerVars == <<pc, mode, certKey, mngCert, tlscert, ret, obs>>
cacheVars == <<heap, cache, reloads, now, stor, watches, stats, ncalls>>
vars == <<cfgVars, polVars, callerVars, cacheVars>>

(***************************************************************************)
(* Host policy (config.go)                                                 *)
(***************************************************************************)

\* Hosts and patterns are sequences of characters / regex tokens.
Hosts == {<<"a", ".", "x">>, <<"b", ".", "x">>, <<"c", ".", "x">>, <<"A", ".", "x">>}
DomainPool == {<<"a", ".", "x">>, <<"C", ".", "x">>}
\* "^b\." ; "a." (unanchored, . is any character) ; "(" does not compile
PatternPool == {<<"^", "b", "\\.">>, <<"a", ".">>, <<"(">>}

ErrHostNotPermitted == "host not permitted"

\* regexp.Compile: a pattern with an unbalanced parenthesis is an error.
CompileOk(p) == \A i \in 1..Len(p) : p[i] # "("
Compile(p) ==
    IF Len(p) > 0 /\ p[1] = "^"
    THEN [anchored |-> TRUE, body |-> SubSeq(p, 2, Len(p))]
    ELSE [anchored |-> FALSE, body |-> p]

TokMatch(tok, ch) ==
    CASE tok = "." -> TRUE
      [] tok = "\\." -> ch = "."
      [] OTHER -> tok = ch

\* (*regexp.Regexp).MatchString
MatchString(re, h) ==
    \E i \in (IF re.anchored THEN {0} ELSE 0..Len(h)) :
        /\ i + Len(re.body) <= Len(h)
        /\ \A j \in 1..Len(re.body) : TokMatch(re.body[j], h[i + j])

ToLower(ch) ==
    CASE ch = "A" -> "a"
      [] ch = "B" -> "b"
      [] ch = "C" -> "c"
      [] OTHER -> ch
LowerHost(h) == [i \in 1..Len(h) |-> ToLower(h[i])]

\* A sub-policy value: nil, or the whitelist it closes over.
NilPolicy == [set |-> FALSE, hosts |-> {}, patterns |-> <<>>]

\* HostWhitelist(hosts...): allow iff host is in the list, ignoring case.
HostWhitelist(hosts) ==
    [set |-> TRUE, hosts |-> {LowerHost(hosts[i]) : i \in 1..Len(hosts)}, patterns |-> <<>>]
listAllows(listPolicy, h) == LowerHost(h) \in listPolicy.hosts
CallListPolicy(listPolicy, h) ==
    IF listAllows(listPolicy, h) THEN NoErr ELSE ErrHostNotPermitted

\* RegexpWhitelist(patterns...): allow iff host matches one of the patterns.
RegexpWhitelist(patterns) == [set |-> TRUE, hosts |-> {}, patterns |-> patterns]
reAllows(rePolicy, h) ==
    \E i \in 1..Len(rePolicy.patterns) : MatchString(rePolicy.patterns[i], h)
CallRePolicy(rePolicy, h) ==
    IF reAllows(rePolicy, h) THEN NoErr ELSE ErrHostNotPermitted

\* config.go:138-140, the policy of a configuration that names no domain.
AllowAnyDeny(h) == [err |-> ErrHostNotPermitted, evaluated |-> <<>>]
AllowAny(h) == [err |-> NoErr, evaluated |-> <<>>]

\* config.go:146-158, the composed policy. err is the named result.
Composed(listPolicy, rePolicy, h) ==
    LET err1 == IF listPolicy.set THEN CallListPolicy(listPolicy, h) ELSE NoErr
        ev1 == IF listPolicy.set THEN <<"list">> ELSE <<>>
    IN  IF listPolicy.set /\ err1 = NoErr
        THEN [err |-> NoErr, evaluated |-> ev1]                      \* :149
        ELSE IF rePolicy.set
             THEN LET err2 == CallRePolicy(rePolicy, h)
                  IN  IF err2 # NoErr
                      THEN [err |-> NoErr, evaluated |-> ev1 \o <<"re">>]   \* :154
                      ELSE [err |-> err2, evaluated |-> ev1 \o <<"re">>]    \* :157
             ELSE [err |-> err1, evaluated |-> ev1]                  \* :157

CallHostPolicy(hp, h) ==
    IF hp.kind = "any" THEN AllowAny(h) ELSE Composed(hp.list, hp.re, h)

Unbuilt == [kind |-> "unset", list |-> NilPolicy, re |-> NilPolicy]

\* config.go:118-159
buildHostPolicy ==
    /\ HostPolicy.kind = "unset"
    /\ LET listPolicy == IF Len(Domains) > 0 THEN HostWhitelist(Domains) ELSE NilPolicy
           compiles == \A i \in 1..Len(REPatterns) : CompileOk(REPatterns[i])
           rePolicy == IF Len(REPatterns) > 0
                       THEN RegexpWhitelist([i \in 1..Len(REPatterns) |-> Compile(REPatterns[i])])
                       ELSE NilPolicy
       IN  HostPolicy' =
             IF ~compiles
             THEN [kind |-> "fatal", list |-> NilPolicy, re |-> NilPolicy]   \* log.Fatalf
             ELSE IF ~listPolicy.set /\ ~rePolicy.set
                  THEN [kind |-> "any", list |-> NilPolicy, re |-> NilPolicy]
                  ELSE [kind |-> "composed", list |-> listPolicy, re |-> rePolicy]
    /\ UNCHANGED <<Domains, REPatterns, host, err, evaluated>>
    /\ UNCHANGED <<cfgVars, callerVars, cacheVars>>

\* A call p.LetsEncrypt.HostPolicy(ctx, h).
Authorize ==
    /\ HostPolicy.kind \in {"any", "composed"}
    /\ \E h \in Hosts :
         LET r == CallHostPolicy(HostPolicy, h)
         IN  /\ host' = h
             /\ err' = r.err
             /\ evaluated' = r.evaluated
    /\ UNCHANGED <<Domains, REPatterns, HostPolicy>>
    /\ UNCHANGED <<cfgVars, callerVars, cacheVars>>

(***************************************************************************)
(* Default options (config.go, setupDefaultOptions)                        *)
(***************************************************************************)

\* The zero value of the options, as yaml.UnmarshalStrict leaves an option
\* the file does not set.
ZeroCfg ==
    [Listen |-> "", PIDFile |-> "", StorageType |-> "", DirCache |-> "", RedisAddr |-> "",
     RenewBefore |-> 0, Staging |-> FALSE, DirectoryURL |-> "",
     ValidDays |-> 0, Organization |-> <<>>, Cert |-> "", PrivKey |-> ""]

\* The configurations a file may give: each option unset or set to a value.
UserCfgs ==
    [Listen : {"", "0.0.0.0:443"}, PIDFile : {"", "/run/scs.pid"},
     StorageType : {"", "redis"}, DirCache : {""}, RedisAddr : {"", "10.0.0.1:6379"},
     RenewBefore : {-1, 0, 7}, Staging : BOOLEAN, DirectoryURL : {""},
     ValidDays : {0, 90}, Organization : {<<>>, <<"Acme">>},
     Cert : {"", "my.cert"}, PrivKey : {""}]

\* config.go:77-116
setupDefaultOptions ==
    /\ ~defaulted
    /\ LET c1 == IF Cfg.Listen = "" THEN [Cfg EXCEPT !.Listen = "127.0.0.1:8999"] ELSE Cfg
           c2 == IF c1.PIDFile = "" THEN [c1 EXCEPT !.Listen = "ssl-cert-server.pid"] ELSE c1
           c3 == IF c2.StorageType = "" THEN [c2 EXCEPT !.StorageType = "dir_cache"] ELSE c2
           c4 == IF c3.DirCache = "" THEN [c3 EXCEPT !.DirCache = "./secret-dir"] ELSE c3
           c5 == IF c4.RedisAddr = "" THEN [c4 EXCEPT !.RedisAddr = "127.0.0.1:6379"] ELSE c4
           c6 == IF c5.RenewBefore <= 0 THEN [c5 EXCEPT !.RenewBefore = 30] ELSE c5
           c7 == [c6 EXCEPT !.DirectoryURL = IF c6.Staging THEN "stagingDirectoryURL"
                                                           ELSE "acme.LetsEncryptURL"]
           c8 == IF c7.ValidDays <= 0 THEN [c7 EXCEPT !.ValidDays = 365] ELSE c7
           c9 == IF Len(c8.Organization) = 0
                 THEN [c8 EXCEPT !.Organization = <<"SSL Cert Server Self-Signed">>] ELSE c8
           c10 == IF c9.Cert = "" THEN [c9 EXCEPT !.Cert = "self_signed.cert"] ELSE c9
           c11 == IF c10.PrivKey = "" THEN [c10 EXCEPT !.PrivKey = "self_signed.key"] ELSE c10
       IN  Cfg' = c11
    /\ defaulted' = TRUE
    /\ UNCHANGED CfgRead
    /\ UNCHANGED <<polVars, callerVars, cacheVars>>

SeqsUpTo(S, n) == UNION {[1..m -> S] : m \in 0..n}

(***************************************************************************)
(* Managed certificate cache (server/managed.go)                           *)
(***************************************************************************)

\* &managedCert{}; storedAt is history, the time the snapshot was stored
NewManagedCert == [cert |-> NilCert, loadAt |-> 0, locked |-> FALSE, storedAt |-> 0]

NoRet == [done |-> FALSE, cert |-> NilCert, err |-> NoErr]
NoObs == [first |-> FALSE, cached |-> FALSE, seenLoadAt |-> 0, seenNow |-> 0,
          seenStoredAt |-> 0, seenFailedAt |-> 0,
          locks |-> 0, loads |-> 0, spawns |-> 0, watched |-> <<>>]
NoStats == [returned |-> FALSE, launched |-> 0, coldLoads |-> 0, coldFails |-> 0,
            firstLoads |-> 0, failedAt |-> 0, loaded |-> {}]

\* StorageManager.LoadCertificateFromStore(certKey): the results a call may
\* return, the certificate the storage holds now or an error.
ErrLoad == "load failed"
LoadCertificateFromStore(k) ==
    {[cert |-> Cert(k, stor[k]), err |-> NoErr], [cert |-> NilCert, err |-> ErrLoad]}

\* managed.go:97-99
OCSPKeyNameBare(k) == k
OCSPKeyName(k) == "managed|" \o k

\* managed.go:59-60, the reload condition on an entry read at time t
StaleAtInterval(e, t) == e.loadAt > 0 /\ t - e.loadAt >= reloadInterval
StaleNever(e, t) == FALSE
Stale(e, t) == e.loadAt > 0 /\ t - e.loadAt > reloadInterval

\* managed.go:73, the re-check under the lock
PopulatedNoRecheck(e) == FALSE
Populated(e) == e.cert # NilCert

\* managed.go:78
WrapErrBare(cause) == cause
WrapErr(cause) == "managed: " \o cause

\* return of getManagedCertificate(certKey) with (c, e), and Get's lines
\* 41-43: on an error Get returns (nil, err); otherwise it goes on to Watch.
\* st is the key's call statistics as the returning step leaves them.
Return(p, c, e, st) ==
    LET toWatch == mode[p] = "Get" /\ e = NoErr
    IN  /\ pc' = [pc EXCEPT ![p] = IF toWatch THEN "L46" ELSE "idle"]
        /\ ret' = [ret EXCEPT ![p] = [done |-> ~toWatch, cert |-> c, err |-> e]]
        /\ stats' = [stats EXCEPT ![certKey[p]] = [st EXCEPT !.returned = TRUE]]

StartCall(p, k, m) ==
    /\ pc[p] = "idle"
    /\ ncalls < MaxCalls
    /\ ncalls' = ncalls + 1
    /\ pc' = [pc EXCEPT ![p] = "L54"]
    /\ mode' = [mode EXCEPT ![p] = m]
    /\ certKey' = [certKey EXCEPT ![p] = k]
    /\ mngCert' = [mngCert EXCEPT ![p] = 0]
    /\ tlscert' = [tlscert EXCEPT ![p] = NilCert]
    /\ ret' = [ret EXCEPT ![p] = NoRet]
    /\ obs' = [obs EXCEPT ![p] = [NoObs EXCEPT
                  !.first = ~stats[k].returned,
                  !.cached = cache[k] # 0 /\ heap[cache[k]].cert # NilCert]]
    /\ UNCHANGED <<heap, cache, reloads, now, stor, watches, stats>>
    /\ UNCHANGED polVars
    /\ UNCHANGED cfgVars

\* managed.go:39-40, a TLS handshake calls Get(certKey)
Get(p) == \E k \in Keys : StartCall(p, k, "Get")

\* managed.go:46-48, the OCSPManager runs a registered callback, which calls
\* getManagedCertificate(certKey) for the certKey it closed over
Refresh(p) == \E w \in watches : StartCall(p, w.certKey, "Refresh")

\* managed.go:54-55, cached, ok := p.cache.Load(certKey)
L54(p) ==
    /\ pc[p] = "L54"
    /\ IF cache[certKey[p]] # 0
       THEN /\ mngCert' = [mngCert EXCEPT ![p] = cache[certKey[p]]]
            /\ pc' = [pc EXCEPT ![p] = "L57"]
       ELSE /\ pc' = [pc EXCEPT ![p] = "L68"]
            /\ UNCHANGED mngCert
    /\ UNCHANGED <<mode, certKey, tlscert, ret, obs>>
    /\ UNCHANGED cacheVars
    /\ UNCHANGED polVars
    /\ UNCHANGED cfgVars

\* managed.go:57-58, tlscert := atomic.LoadPointer(&mngCert.cert)
L57(p) ==
    /\ pc[p] = "L57"
    /\ tlscert' = [tlscert EXCEPT ![p] = heap[mngCert[p]].cert]
    /\ pc' = [pc EXCEPT ![p] = IF heap[mngCert[p]].cert # NilCert THEN "L59" ELSE "L68"]
    /\ obs' = [obs EXCEPT ![p].seenStoredAt = heap[mngCert[p]].storedAt]
    /\ UNCHANGED <<mode, certKey, mngCert, ret>>
    /\ UNCHANGED cacheVars
    /\ UNCHANGED polVars
    /\ UNCHANGED cfgVars

\* lines 59-63 with the launch deduplicated: no reload task is started while
\* one is in flight for the key
L59Dedup(p) ==
    /\ pc[p] = "L59"
    /\ LET e == heap[mngCert[p]]
           k == certKey[p]
       IN  IF Stale(e, now) /\ \A t \in BagToSet(reloads) : t.certKey # k
           THEN /\ reloads' = reloads (+) SetToBag({[certKey |-> k, mngCert |-> mngCert[p],
                                                     pc |-> "L86", tlscert |-> NilCert]})
                /\ obs' = [obs EXCEPT ![p].spawns = @ + 1,
                                      ![p].seenLoadAt = e.loadAt, ![p].seenNow = now,
                                      ![p].seenFailedAt = stats[k].failedAt]
                /\ Return(p, tlscert[p], NoErr, [stats[k] EXCEPT !.launched = @ + 1])
           ELSE /\ obs' = [obs EXCEPT ![p].seenLoadAt = e.loadAt, ![p].seenNow = now,
                                      ![p].seenFailedAt = stats[k].failedAt]
                /\ Return(p, tlscert[p], NoErr, stats[k])
                /\ UNCHANGED reloads
    /\ UNCHANGED <<mode, certKey, mngCert, tlscert>>
    /\ UNCHANGED <<heap, cache, now, stor, watches, ncalls>>
    /\ UNCHANGED polVars
    /\ UNCHANGED cfgVars

\* lines 59-63 with a back-off: after a failed reload no reload task is
\* started until reloadInterval has passed since the failure
L59Backoff(p) ==
    /\ pc[p] = "L59"
    /\ LET e == heap[mngCert[p]]
           k == certKey[p]
       IN  IF /\ Stale(e, now)
              /\ stats[k].failedAt > 0 => now - stats[k].failedAt > reloadInterval
           THEN /\ reloads' = reloads (+) SetToBag({[certKey |-> k, mngCert |-> mngCert[p],
                                                     pc |-> "L86", tlscert |-> NilCert]})
                /\ obs' = [obs EXCEPT ![p].spawns = @ + 1,
                                      ![p].seenLoadAt = e.loadAt, ![p].seenNow = now,
                                      ![p].seenFailedAt = stats[k].failedAt]
                /\ Return(p, tlscert[p], NoErr, [stats[k] EXCEPT !.launched = @ + 1])
           ELSE /\ obs' = [obs EXCEPT ![p].seenLoadAt = e.loadAt, ![p].seenNow = now,
                                      ![p].seenFailedAt = stats[k].failedAt]
                /\ Return(p, tlscert[p], NoErr, stats[k])
                /\ UNCHANGED reloads
    /\ UNCHANGED <<mode, certKey, mngCert, tlscert>>
    /\ UNCHANGED <<heap, cache, now, stor, watches, ncalls>>
    /\ UNCHANGED polVars
    /\ UNCHANGED cfgVars

\* managed.go:59-63, the unlocked read of loadAt, the go statement, the return
L59(p) ==
    /\ pc[p] = "L59"
    /\ LET e == heap[mngCert[p]]
           k == certKey[p]
       IN  IF Stale(e, now)
           THEN /\ reloads' = reloads (+) SetToBag({[certKey |-> k, mngCert |-> mngCert[p],
                                                     pc |-> "L86", tlscert |-> NilCert]})
                /\ obs' = [obs EXCEPT ![p].spawns = @ + 1,
                                      ![p].seenLoadAt = e.loadAt, ![p].seenNow = now,
                                      ![p].seenFailedAt = stats[k].failedAt]
                /\ Return(p, tlscert[p], NoErr, [stats[k] EXCEPT !.launched = @ + 1])
           ELSE /\ obs' = [obs EXCEPT ![p].seenLoadAt = e.loadAt, ![p].seenNow = now,
                                      ![p].seenFailedAt = stats[k].failedAt]
                /\ Return(p, tlscert[p], NoErr, stats[k])
                /\ UNCHANGED reloads
    /\ UNCHANGED <<mode, certKey, mngCert, tlscert>>
    /\ UNCHANGED <<heap, cache, now, stor, watches, ncalls>>
    /\ UNCHANGED polVars
    /\ UNCHANGED cfgVars

\* managed.go:68-69 with a plain Store in place of LoadOrStore: the caller
\* installs its own new entry whatever the map holds.
L68Store(p) ==
    /\ pc[p] = "L68"
    /\ heap' = Append(heap, NewManagedCert)
    /\ cache' = [cache EXCEPT ![certKey[p]] = Len(heap) + 1]
    /\ mngCert' = [mngCert EXCEPT ![p] = Len(heap) + 1]
    /\ pc' = [pc EXCEPT ![p] = "L70"]
    /\ UNCHANGED <<mode, certKey, tlscert, ret, obs>>
    /\ UNCHANGED <<reloads, now, stor, watches, stats, ncalls>>
    /\ UNCHANGED polVars
    /\ UNCHANGED cfgVars

\* lines 68-69 with one managedCert, and so one lock, shared by all keys
L68Shared(p) ==
    /\ pc[p] = "L68"
    /\ IF Len(heap) > 0
       THEN /\ cache' = [cache EXCEPT ![certKey[p]] = 1]
            /\ mngCert' = [mngCert EXCEPT ![p] = 1]
            /\ UNCHANGED heap
       ELSE /\ heap' = Append(heap, NewManagedCert)
            /\ cache' = [cache EXCEPT ![certKey[p]] = 1]
            /\ mngCert' = [mngCert EXCEPT ![p] = 1]
    /\ pc' = [pc EXCEPT ![p] = "L70"]
    /\ UNCHANGED <<mode, certKey, tlscert, ret, obs>>
    /\ UNCHANGED <<reloads, now, stor, watches, stats, ncalls>>
    /\ UNCHANGED polVars
    /\ UNCHANGED cfgVars

\* managed.go:68-69, cached, _ = p.cache.LoadOrStore(certKey, &managedCert{})
L68(p) ==
    /\ pc[p] = "L68"
    /\ IF cache[certKey[p]] # 0
       THEN /\ mngCert' = [mngCert EXCEPT ![p] = cache[certKey[p]]]
            /\ UNCHANGED <<heap, cache>>
       ELSE /\ heap' = Append(heap, NewManagedCert)
            /\ cache' = [cache EXCEPT ![certKey[p]] = Len(heap) + 1]
            /\ mngCert' = [mngCert EXCEPT ![p] = Len(heap) + 1]
    /\ pc' = [pc EXCEPT ![p] = "L70"]
    /\ UNCHANGED <<mode, certKey, tlscert, ret, obs>>
    /\ UNCHANGED <<reloads, now, stor, watches, stats, ncalls>>
    /\ UNCHANGED polVars
    /\ UNCHANGED cfgVars

\* managed.go:70, mngCert.Lock()
L70(p) ==
    /\ pc[p] = "L70"
    /\ ~heap[mngCert[p]].locked
    /\ heap' = [heap EXCEPT ![mngCert[p]].locked = TRUE]
    /\ pc' = [pc EXCEPT ![p] = "L73"]
    /\ obs' = [obs EXCEPT ![p].locks = @ + 1]
    /\ UNCHANGED <<mode, certKey, mngCert, tlscert, ret>>
    /\ UNCHANGED <<cache, reloads, now, stor, watches, stats, ncalls>>
    /\ UNCHANGED polVars
    /\ UNCHANGED cfgVars

\* the re-check returning without the deferred Unlock
L73NoUnlock(p) ==
    /\ pc[p] = "L73"
    /\ IF Populated(heap[mngCert[p]])
       THEN /\ Return(p, heap[mngCert[p]].cert, NoErr, stats[certKey[p]])
            /\ UNCHANGED heap
       ELSE /\ pc' = [pc EXCEPT ![p] = "L76"]
            /\ UNCHANGED <<heap, ret, stats>>
    /\ UNCHANGED <<mode, certKey, mngCert, tlscert, obs>>
    /\ UNCHANGED <<cache, reloads, now, stor, watches, ncalls>>
    /\ UNCHANGED polVars
    /\ UNCHANGED cfgVars

\* managed.go:73-75, the re-check; the deferred Unlock runs at the return
L73(p) ==
    /\ pc[p] = "L73"
    /\ IF Populated(heap[mngCert[p]])
       THEN /\ heap' = [heap EXCEPT ![mngCert[p]].locked = FALSE]
            /\ Return(p, heap[mngCert[p]].cert, NoErr, stats[certKey[p]])
       ELSE /\ pc' = [pc EXCEPT ![p] = "L76"]
            /\ UNCHANGED <<heap, ret, stats>>
    /\ UNCHANGED <<mode, certKey, mngCert, tlscert, obs>>
    /\ UNCHANGED <<cache, reloads, now, stor, watches, ncalls>>
    /\ UNCHANGED polVars
    /\ UNCHANGED cfgVars

\* managed.go:76, the call p.stor.LoadCertificateFromStore(certKey) is made
L76(p) ==
    /\ pc[p] = "L76"
    /\ pc' = [pc EXCEPT ![p] = "L76w"]
    /\ obs' = [obs EXCEPT ![p].loads = @ + 1]
    /\ stats' = [stats EXCEPT ![certKey[p]].coldLoads = @ + 1,
                              ![certKey[p]].firstLoads = IF obs[p].first THEN @ + 1 ELSE @]
    /\ UNCHANGED <<mode, certKey, mngCert, tlscert, ret>>
    /\ UNCHANGED <<heap, cache, reloads, now, stor, watches, ncalls>>
    /\ UNCHANGED polVars
    /\ UNCHANGED cfgVars

\* managed.go:76-79, the call returns; on an error the function returns the
\* wrapped error and the deferred Unlock runs
L76w(p) ==
    /\ pc[p] = "L76w"
    /\ \E r \in LoadCertificateFromStore(certKey[p]) :
           IF r.err # NoErr
           THEN /\ heap' = [heap EXCEPT ![mngCert[p]].locked = FALSE]
                /\ Return(p, NilCert, WrapErr(r.err),
                          [stats[certKey[p]] EXCEPT !.coldFails = @ + 1])
                /\ UNCHANGED tlscert
           ELSE /\ tlscert' = [tlscert EXCEPT ![p] = r.cert]
                /\ pc' = [pc EXCEPT ![p] = "L80"]
                /\ stats' = [stats EXCEPT ![certKey[p]].loaded = @ \cup {r.cert}]
                /\ UNCHANGED <<heap, ret>>
    /\ UNCHANGED <<mode, certKey, mngCert, obs>>
    /\ UNCHANGED <<cache, reloads, now, stor, watches, ncalls>>
    /\ UNCHANGED polVars
    /\ UNCHANGED cfgVars

\* managed.go:80, atomic.StorePointer(&mngCert.cert, tlscert)
L80(p) ==
    /\ pc[p] = "L80"
    /\ heap' = [heap EXCEPT ![mngCert[p]].cert = tlscert[p], ![mngCert[p]].storedAt = now]
    /\ pc' = [pc EXCEPT ![p] = "L81"]
    /\ UNCHANGED <<mode, certKey, mngCert, tlscert, ret, obs>>
    /\ UNCHANGED <<cache, reloads, now, stor, watches, stats, ncalls>>
    /\ UNCHANGED polVars
    /\ UNCHANGED cfgVars

\* managed.go:81-83, mngCert.loadAt = time.Now().Unix(); return; deferred Unlock
L81(p) ==
    /\ pc[p] = "L81"
    /\ heap' = [heap EXCEPT ![mngCert[p]].loadAt = now, ![mngCert[p]].locked = FALSE]
    /\ Return(p, tlscert[p], NoErr, stats[certKey[p]])
    /\ UNCHANGED <<mode, certKey, mngCert, tlscert, obs>>
    /\ UNCHANGED <<cache, reloads, now, stor, watches, ncalls>>
    /\ UNCHANGED polVars
    /\ UNCHANGED cfgVars

\* managed.go:45-50, p.ocspMgr.Watch(ocspKeyName, callback); return tlscert, nil.
\* OCSPManager.Watch keeps one watch per key name.
L46(p) ==
    /\ pc[p] = "L46"
    /\ LET w == [name |-> OCSPKeyName(certKey[p]), certKey |-> certKey[p]]
       IN  /\ watches' = {x \in watches : x.name # w.name} \cup {w}
           /\ obs' = [obs EXCEPT ![p].watched = Append(@, w)]
    /\ pc' = [pc EXCEPT ![p] = "idle"]
    /\ ret' = [ret EXCEPT ![p].done = TRUE]
    /\ UNCHANGED <<mode, certKey, mngCert, tlscert>>
    /\ UNCHANGED <<heap, cache, reloads, now, stor, stats, ncalls>>
    /\ UNCHANGED polVars
    /\ UNCHANGED cfgVars

\* ---- reloadManagedCertificate(mngCert, certKey), one goroutine t
Becomes(t, t2) == reloads' = (reloads (-) SetToBag({t})) (+) SetToBag({t2})
Exits(t) == reloads' = reloads (-) SetToBag({t})

\* a reload that invalidates the snapshot before it loads
R86Clear(t) ==
    /\ t.pc = "L86"
    /\ heap' = [heap EXCEPT ![t.mngCert].cert = NilCert]
    /\ Becomes(t, [t EXCEPT !.pc = "L86w"])
    /\ UNCHANGED <<cache, now, stor, watches, stats, ncalls>>
    /\ UNCHANGED callerVars
    /\ UNCHANGED polVars
    /\ UNCHANGED cfgVars

\* managed.go:86, the call p.stor.LoadCertificateFromStore(certKey) is made
R86(t) ==
    /\ t.pc = "L86"
    /\ Becomes(t, [t EXCEPT !.pc = "L86w"])
    /\ UNCHANGED <<heap, cache, now, stor, watches, stats, ncalls>>
    /\ UNCHANGED callerVars
    /\ UNCHANGED polVars
    /\ UNCHANGED cfgVars

\* managed.go:86-90, the call returns; on an error: log and return
R86wNoCheck(t) ==
    /\ t.pc = "L86w"
    /\ \E r \in LoadCertificateFromStore(t.certKey) :
           Becomes(t, [t EXCEPT !.pc = "L91", !.tlscert = r.cert])
    /\ UNCHANGED <<heap, cache, now, stor, watches, stats, ncalls>>
    /\ UNCHANGED callerVars
    /\ UNCHANGED polVars
    /\ UNCHANGED cfgVars
R86w(t) ==
    /\ t.pc = "L86w"
    /\ \E r \in LoadCertificateFromStore(t.certKey) :
           IF r.err # NoErr
           THEN /\ Exits(t)
                /\ stats' = [stats EXCEPT ![t.certKey].failedAt = now]
           ELSE /\ Becomes(t, [t EXCEPT !.pc = "L91", !.tlscert = r.cert])
                /\ stats' = [stats EXCEPT ![t.certKey].loaded = @ \cup {r.cert}]
    /\ UNCHANGED <<heap, cache, now, stor, watches, ncalls>>
    /\ UNCHANGED callerVars
    /\ UNCHANGED polVars
    /\ UNCHANGED cfgVars

\* the reload task without its Lock() call
R91NoLock(t) ==
    /\ t.pc = "L91"
    /\ Becomes(t, [t EXCEPT !.pc = "L93"])
    /\ UNCHANGED <<heap, cache, now, stor, watches, stats, ncalls>>
    /\ UNCHANGED callerVars
    /\ UNCHANGED polVars
    /\ UNCHANGED cfgVars

\* managed.go:91, mngCert.Lock()
R91(t) ==
    /\ t.pc = "L91"
    /\ ~heap[t.mngCert].locked
    /\ heap' = [heap EXCEPT ![t.mngCert].locked = TRUE]
    /\ Becomes(t, [t EXCEPT !.pc = "L93"])
    /\ UNCHANGED <<cache, now, stor, watches, stats, ncalls>>
    /\ UNCHANGED callerVars
    /\ UNCHANGED polVars
    /\ UNCHANGED cfgVars

\* managed.go:93, atomic.StorePointer(&mngCert.cert, tlscert)
R93(t) ==
    /\ t.pc = "L93"
    /\ heap' = [heap EXCEPT ![t.mngCert].cert = t.tlscert, ![t.mngCert].storedAt = now]
    /\ Becomes(t, [t EXCEPT !.pc = "L94"])
    /\ UNCHANGED <<cache, now, stor, watches, stats, ncalls>>
    /\ UNCHANGED callerVars
    /\ UNCHANGED polVars
    /\ UNCHANGED cfgVars

\* managed.go:94-95, mngCert.loadAt = time.Now().Unix(); deferred Unlock
R94(t) ==
    /\ t.pc = "L94"
    /\ heap' = [heap EXCEPT ![t.mngCert].loadAt = now, ![t.mngCert].locked = FALSE]
    /\ Exits(t)
    /\ UNCHANGED <<cache, now, stor, watches, stats, ncalls>>
    /\ UNCHANGED callerVars
    /\ UNCHANGED polVars
    /\ UNCHANGED cfgVars

\* ---- the environment
\* The clock advances.
Tick ==
    /\ \E t \in Times : t > now /\ now' = t
    /\ UNCHANGED <<heap, cache, reloads, stor, watches, stats, ncalls>>
    /\ UNCHANGED callerVars
    /\ UNCHANGED polVars
    /\ UNCHANGED cfgVars

\* The operator installs a new certificate for a key.
StorageUpdate ==
    /\ \E k \in Keys :
         /\ stor[k] < MaxVer
         /\ stor' = [stor EXCEPT ![k] = @ + 1]
    /\ UNCHANGED <<heap, cache, reloads, now, watches, stats, ncalls>>
    /\ UNCHANGED callerVars
    /\ UNCHANGED polVars
    /\ UNCHANGED cfgVars

InitCache ==
    /\ heap = <<>>
    /\ cache = [k \in Keys |-> 0]
    /\ reloads = EmptyBag
    /\ pc = [p \in Callers |-> "idle"]
    /\ mode = [p \in Callers |-> "Get"]
    /\ certKey = [p \in Callers |-> "a"]
    /\ mngCert = [p \in Callers |-> 0]
    /\ tlscert = [p \in Callers |-> NilCert]
    /\ ret = [p \in Callers |-> NoRet]
    /\ now = 1
    /\ stor = [k \in Keys |-> 1]
    /\ watches = {}
    /\ obs = [p \in Callers |-> NoObs]
    /\ stats = [k \in Keys |-> NoStats]
    /\ ncalls = 0

InitCfg ==
    /\ Cfg = ZeroCfg
    /\ CfgRead = ZeroCfg
    /\ defaulted = FALSE

Init ==
    /\ InitCfg
    /\ Domains = <<>>
    /\ REPatterns = <<>>
    /\ HostPolicy = Unbuilt
    /\ host = <<>>
    /\ err = NoErr
    /\ evaluated = <<>>
    /\ InitCache

InitPolicy ==
    /\ InitCfg
    /\ Domains \in SeqsUpTo(DomainPool, MaxList)
    /\ REPatterns \in SeqsUpTo(PatternPool, MaxList)
    /\ HostPolicy = Unbuilt
    /\ host = <<>>
    /\ err = NoErr
    /\ evaluated = <<>>
    /\ InitCache

\* The steps of a call in progress.
Progress(p) ==
    \/ L54(p)
    \/ L57(p)
    \/ L59(p)
    \/ L68(p)
    \/ L70(p)
    \/ L73(p)
    \/ L76(p)
    \/ L76w(p)
    \/ L80(p)
    \/ L81(p)
    \/ L46(p)

CallerStep(p) ==
    \/ Get(p)
    \/ Refresh(p)
    \/ L54(p)
    \/ L57(p)
    \/ L59(p)
    \/ L68(p)
    \/ L70(p)
    \/ L73(p)
    \/ L76(p)
    \/ L76w(p)
    \/ L80(p)
    \/ L81(p)
    \/ L46(p)

ReloadStep(t) ==
    \/ R86(t)
    \/ R86w(t)
    \/ R91(t)
    \/ R93(t)
    \/ R94(t)

Next ==
    \/ \E p \in Callers : CallerStep(p)
    \/ \E t \in BagToSet(reloads) : ReloadStep(t)
    \/ Tick
    \/ StorageUpdate

Spec == Init /\ [][Next]_vars

NextPolicy ==
    \/ buildHostPolicy
    \/ Authorize

SpecPolicy == InitPolicy /\ [][NextPolicy]_vars

\* config.go:171-186, initConfig: the file is read into Cfg, then the
\* defaults are set
InitConfig ==
    /\ Cfg \in UserCfgs
    /\ CfgRead = Cfg
    /\ defaulted = FALSE
    /\ Domains = <<>>
    /\ REPatterns = <<>>
    /\ HostPolicy = Unbuilt
    /\ host = <<>>
    /\ err = NoErr
    /\ evaluated = <<>>
    /\ InitCache

NextConfig == setupDefaultOptions

SpecConfig == InitConfig /\ [][NextConfig]_vars

(***************************************************************************)
(* Host policy: properties                                                 *)
(***************************************************************************)

\* A HostPolicy call has been made on the composed policy.
ComposedCalled == HostPolicy.kind = "composed" /\ host # <<>>

ListSaysAllow == HostPolicy.list.set /\ listAllows(HostPolicy.list, host)
ReSaysAllow == HostPolicy.re.set /\ reAllows(HostPolicy.re, host)

\* C1: with at least one sub-policy configured, the composed policy allows a
\* host only if the exact list allows it or the regex list allows it; an
\* error from the regex sub-policy is never turned into an allow.
C1_DenyUnlessAllowed ==
    ComposedCalled => (err = NoErr => (ListSaysAllow \/ ReSaysAllow))

\* C7: the exact list is evaluated first and, when it allows, the composed
\* policy allows without evaluating the regex list; otherwise the verdict is
\* the regex list's verdict.
C7_OrderedComposition ==
    ComposedCalled =>
        IF ListSaysAllow
        THEN err = NoErr /\ evaluated = <<"list">>
        ELSE HostPolicy.re.set => ((err = NoErr) <=> ReSaysAllow)

\* C8: with exactly one of Domains and REPatterns non-empty, the composed
\* verdict is that sub-policy's verdict.
C8_SingleSubPolicy ==
    ComposedCalled =>
        /\ (Len(Domains) > 0 /\ Len(REPatterns) = 0) => ((err = NoErr) <=> ListSaysAllow)
        /\ (Len(Domains) = 0 /\ Len(REPatterns) > 0) => ((err = NoErr) <=> ReSaysAllow)

\* C9: with neither Domains nor REPatterns configured, the policy built by
\* buildHostPolicy returns nil for every host.
C9_AllowAnyByDefault ==
    (Len(Domains) = 0 /\ Len(REPatterns) = 0 /\ host # <<>>) => err = NoErr

\* C9 witness: the default policy has been called on a host and allowed it.
C9_Witness ==
    /\ Len(Domains) = 0 /\ Len(REPatterns) = 0
    /\ HostPolicy.kind = "any" /\ host = <<"c", ".", "x">> /\ err = NoErr

(***************************************************************************)
(* Managed certificate cache: properties                                   *)
(***************************************************************************)

Entry(k) == heap[cache[k]]
InCall(p) == pc[p] # "idle"

\* The first-time callers of key k still running: their call started before
\* any call for k had returned, so all of them overlap.
FirstRunning(k) == {p \in Callers : InCall(p) /\ certKey[p] = k /\ obs[p].first}

\* C2: concurrent first-time Get calls for one unseen key make exactly one
\* LoadCertificateFromStore call for it, under every interleaving.
C2_ExactlyOneColdLoad ==
    \A k \in Keys :
        /\ stats[k].firstLoads <= 1
        /\ (stats[k].returned /\ FirstRunning(k) = {}) => stats[k].firstLoads = 1

\* C2, amended: the cold path never makes a second load for a key unless every
\* earlier one failed (the re-check under the lock stops the callers that lost
\* the race), so first-time callers load exactly once when that load succeeds
\* and once more for each load that failed.
C2_OneColdLoadUnlessFailed ==
    \A k \in Keys :
        /\ stats[k].coldLoads <= stats[k].coldFails + 1
        /\ stats[k].firstLoads <= stats[k].coldLoads
        /\ (cache[k] # 0 /\ Entry(k).cert # NilCert) =>
               stats[k].coldLoads = stats[k].coldFails + 1
        /\ (stats[k].returned /\ FirstRunning(k) = {} /\ stats[k].coldFails = 0) =>
               stats[k].firstLoads = 1

\* C2 witness: two first-time Get calls for "a" have finished; one loaded, the
\* other took the lock, found the snapshot populated and did not load.
C2_Witness ==
    \E p, q \in Callers :
        /\ p # q /\ ret[p].done /\ ret[q].done
        /\ certKey[p] = "a" /\ certKey[q] = "a"
        /\ obs[p].first /\ obs[q].first
        /\ obs[p].loads = 1
        /\ obs[q].locks = 1 /\ obs[q].loads = 0
        /\ ret[q].cert = ret[p].cert /\ ret[q].err = NoErr
        /\ stats["a"].coldLoads = 1

\* A reload goroutine's LoadCertificateFromStore call fails in this step.
ReloadFails == \E t \in BagToSet(reloads) : t.pc = "L86w" /\ reloads' = reloads (-) SetToBag({t})

\* A Get that starts on a key with a cached snapshot returns a certificate of
\* that key and a nil error, whatever the reloads in the background do.
C3_ServedFromCache ==
    \A p \in Callers :
        (ret[p].done /\ obs[p].cached) =>
            /\ ret[p].err = NoErr
            /\ ret[p].cert # NilCert
            /\ ret[p].cert.key = certKey[p]

\* C3: once a key has a cached snapshot, every Get for it returns a cached
\* certificate and a nil error, and a reload whose load fails leaves every
\* entry's snapshot and loadAt as they were.
C3_FailedReloadSwallowed ==
    [](C3_ServedFromCache) /\ [][ReloadFails => heap' = heap]_vars

\* C3 witness: two reloads were launched for "a" and one is gone without a
\* store (its load failed: the entry still carries the cold load's loadAt and
\* certificate though the storage holds a newer one), and a Get has returned
\* the cached certificate with a nil error.
C3_Witness ==
    /\ stats["a"].launched = 2 /\ BagCardinality(reloads) = 1
    /\ cache["a"] # 0 /\ Entry("a").loadAt = 1 /\ Entry("a").cert = Cert("a", 1)
    /\ stor["a"] = 2
    /\ \E p \in Callers :
          /\ ret[p].done /\ certKey[p] = "a" /\ obs[p].cached /\ obs[p].spawns = 1
          /\ mode[p] = "Get" /\ ret[p].err = NoErr /\ ret[p].cert = Cert("a", 1)

\* What a caller saw at line 59: a stamped entry older than reloadInterval.
SawStale(p) ==
    /\ obs[p].seenNow > 0
    /\ obs[p].seenLoadAt > 0
    /\ obs[p].seenNow - obs[p].seenLoadAt > reloadInterval
\* ... an entry no older than reloadInterval (or not stamped yet).
SawFresh(p) ==
    /\ obs[p].seenNow > 0
    /\ obs[p].seenLoadAt = 0 \/ obs[p].seenNow - obs[p].seenLoadAt <= reloadInterval

HotPath(p) == L54(p) \/ L57(p) \/ L59(p)

\* C4: a Get that finds a snapshot older than reloadInterval returns that
\* snapshot with a nil error, having taken no lock and made no storage read
\* of its own, and has launched a reload for the key; none of its steps waits
\* for the entry lock or for a storage read.
C4_StaleServedWithoutBlocking ==
    \A p \in Callers :
        /\ SawStale(p) =>
              /\ obs[p].locks = 0 /\ obs[p].loads = 0
              /\ obs[p].spawns >= 1
              /\ stats[certKey[p]].launched >= 1
              /\ ret[p].err = NoErr
              /\ ret[p].cert = tlscert[p] /\ ret[p].cert # NilCert
        /\ pc[p] \in {"L54", "L57", "L59"} => ENABLED HotPath(p)

\* C4 witness: a Get has returned the stale certificate while the entry is
\* locked by a reload and another reload's storage read is in flight.
C4_Witness ==
    \E p \in Callers :
        /\ SawStale(p) /\ ret[p].cert = Cert("a", 1) /\ obs[p].spawns = 1
        /\ Entry("a").locked
        /\ \E t \in BagToSet(reloads) : t.pc = "L86w"

C6_ColdFailure ==
    [][\A p \in Callers :
          (pc[p] = "L76w" /\ ret'[p].err # NoErr) =>
              /\ ret'[p] = [done |-> TRUE, cert |-> NilCert, err |-> "managed: load failed"]
              /\ pc'[p] = "idle"
              /\ heap[mngCert[p]].cert = NilCert
              /\ heap'[mngCert[p]].cert = NilCert
              /\ heap'[mngCert[p]].loadAt = heap[mngCert[p]].loadAt
              /\ heap[mngCert[p]].locked /\ ~heap'[mngCert[p]].locked
              /\ watches' = watches
              /\ obs'[p].watched = <<>>]_vars

\* C6 witness: a Get failed on the cold path; its entry is empty and unlocked
\* and the key has no watch.
C6_Witness ==
    \E p \in Callers :
        /\ ret[p].done /\ mode[p] = "Get" /\ certKey[p] = "a"
        /\ ret[p].err = "managed: load failed" /\ ret[p].cert = NilCert
        /\ obs[p].loads = 1
        /\ Entry("a") = NewManagedCert
        /\ watches = {}

\* C10: a Get that returns a certificate has called Watch exactly once, with
\* the key "managed|" + certKey and a callback that runs the load path for
\* the same certKey; a Get that returns an error has registered no watch.
C10_WatchOnSuccess ==
    /\ \A p \in Callers :
          (ret[p].done /\ mode[p] = "Get") =>
              IF ret[p].err = NoErr
              THEN /\ obs[p].watched = <<[name |-> "managed|" \o certKey[p],
                                          certKey |-> certKey[p]]>>
                   /\ [name |-> "managed|" \o certKey[p], certKey |-> certKey[p]] \in watches
              ELSE obs[p].watched = <<>>
    /\ \A p \in Callers : (InCall(p) /\ mode[p] = "Get") => obs[p].watched = <<>>
    /\ \A p \in Callers :
          (InCall(p) /\ mode[p] = "Refresh") =>
              /\ [name |-> "managed|" \o certKey[p], certKey |-> certKey[p]] \in watches
              /\ pc[p] # "L46"

\* C10 witness: after a cold load, a Get returned through the stale path and
\* registered the watch "managed|a", and the callback for "a" is running.
C10_Witness ==
    \E q, r \in Callers :
        /\ ret[q].done /\ mode[q] = "Get" /\ obs[q].spawns = 1 /\ ret[q].err = NoErr
        /\ obs[q].watched = <<[name |-> "managed|a", certKey |-> "a"]>>
        /\ stats["a"].coldLoads = 1
        /\ InCall(r) /\ mode[r] = "Refresh" /\ certKey[r] = "a"

\* The tasks of either kind that work on an entry obtained from the map.
HasEntry(p) == InCall(p) /\ mngCert[p] # 0

\* C11: the map holds at most one entry per key whatever the interleaving of
\* first-access Gets: every entry ever created is the one the map holds for its
\* key, every caller and every reload task of a key works on that entry, and
\* a first Get that loaded successfully returns the certificate that
\* LoadCertificateFromStore returned to it.
C11_OneEntryPerKey ==
    /\ Len(heap) = Cardinality({k \in Keys : cache[k] # 0})
    /\ \A k \in Keys : cache[k] \in 0..Len(heap)
    /\ \A p \in Callers : HasEntry(p) => mngCert[p] = cache[certKey[p]]
    /\ \A t \in BagToSet(reloads) : t.mngCert = cache[t.certKey]
    /\ \A p \in Callers :
          (ret[p].done /\ ret[p].err = NoErr /\ obs[p].loads = 1) =>
              /\ ret[p].cert = tlscert[p]
              /\ ret[p].cert \in stats[certKey[p]].loaded
              /\ ret[p].cert.key = certKey[p]

\* C11 witness: two overlapping first-access Gets for "a" went down the cold
\* path on the one entry; one loaded, the other found the entry populated
\* under the lock, and both returned the loaded certificate.
C11_Witness ==
    \E p, q \in Callers :
        /\ p # q /\ certKey[p] = "a" /\ certKey[q] = "a"
        /\ obs[p].first /\ obs[q].first /\ ~obs[p].cached /\ ~obs[q].cached
        /\ ret[p].done /\ ret[q].done
        /\ obs[p].loads = 1 /\ obs[q].loads = 0 /\ obs[q].locks = 1
        /\ mngCert[p] = mngCert[q] /\ Len(heap) = 1
        /\ ret[p].cert # NilCert /\ ret[q].cert = ret[p].cert

\* The callers and the reload tasks that are between Lock() and the deferred
\* Unlock() on heap entry i, the section that writes cert and loadAt.
CallersInside(i) ==
    {p \in Callers : mngCert[p] = i /\ pc[p] \in {"L73", "L76", "L76w", "L80", "L81"}}
ReloadsInside(i) ==
    {t \in BagToSet(reloads) : t.mngCert = i /\ t.pc \in {"L93", "L94"}}

\* C12: for each entry at most one task at a time is inside the section that
\* writes cert or loadAt, that task holds the entry's lock, and every step
\* that changes an entry's cert or loadAt is taken with the lock held.
C12_WritesUnderLock ==
    /\ [](\A i \in 1..Len(heap) :
            /\ Cardinality(CallersInside(i)) + Cardinality(ReloadsInside(i)) <= 1
            /\ \A t \in ReloadsInside(i) : CopiesIn(t, reloads) = 1
            /\ heap[i].locked <=> (CallersInside(i) \cup ReloadsInside(i) # {}))
    /\ [][\A i \in 1..Len(heap) :
            (heap'[i].cert # heap[i].cert \/ heap'[i].loadAt # heap[i].loadAt) =>
                heap[i].locked]_vars

\* C12 witness: a reload task is between its StorePointer and its loadAt write
\* while a second reload task of the same entry waits at Lock().
C12_Witness ==
    \E t, u \in BagToSet(reloads) :
        /\ t.pc = "L94" /\ t.mngCert = 1
        /\ u.pc = "L91" /\ u.mngCert = 1
        /\ heap[1].locked /\ heap[1].cert = t.tlscert

\* The position of a caller in getManagedCertificate and Get, and the steps a
\* reload task still has to take: every step of a call moves it forward and
\* every step of a reload task leaves less to do.
Position(l) ==
    CASE l = "L54" -> 1 [] l = "L57" -> 2 [] l = "L59" -> 3 [] l = "L68" -> 4
      [] l = "L70" -> 5 [] l = "L73" -> 6 [] l = "L76" -> 7 [] l = "L76w" -> 8
      [] l = "L80" -> 9 [] l = "L81" -> 10 [] l = "L46" -> 11 [] l = "idle" -> 12
Remaining(l) ==
    CASE l = "L86" -> 5 [] l = "L86w" -> 4 [] l = "L91" -> 3 [] l = "L93" -> 2
      [] l = "L94" -> 1
RECURSIVE WorkOf(_, _)
WorkOf(S, B) ==
    IF S = {} THEN 0
    ELSE LET t == CHOOSE x \in S : TRUE
         IN  CopiesIn(t, B) * Remaining(t.pc) + WorkOf(S \ {t}, B)
Work(B) == WorkOf(BagToSet(B), B)

\* No task is stuck: a held lock has a holder that has not finished and can
\* take its next step, and a task in progress can take its next step unless
\* it waits at Lock() for a lock that is held.
NoTaskStuck ==
    /\ \A i \in 1..Len(heap) :
          heap[i].locked =>
              /\ CallersInside(i) \cup ReloadsInside(i) # {}
              /\ \A p \in CallersInside(i) : ENABLED Progress(p)
              /\ \A t \in ReloadsInside(i) : ENABLED ReloadStep(t)
    /\ \A p \in Callers :
          InCall(p) => (ENABLED Progress(p) \/ (pc[p] = "L70" /\ heap[mngCert[p]].locked))
    /\ \A t \in BagToSet(reloads) :
          ENABLED ReloadStep(t) \/ (t.pc = "L91" /\ heap[t.mngCert].locked)
    /\ \A p \in Callers :
          ret[p].done => \A i \in 1..Len(heap) : p \notin CallersInside(i)

\* C13: the entry lock is released on every exit path, so no lock stays held
\* after its holder finished, and every Get call and every reload task
\* terminates: no task is ever stuck, every step of a call moves the call
\* forward to its return and every step of a reload task leaves it less to do.
C13_LocksReleased ==
    /\ []NoTaskStuck
    /\ [][\A p \in Callers :
            (InCall(p) /\ pc'[p] # pc[p]) => Position(pc'[p]) > Position(pc[p])]_vars
    /\ [][\A t \in BagToSet(reloads) : ReloadStep(t) => Work(reloads') < Work(reloads)]_vars

\* C13 witness: the three exits of the cold path have all been taken on the
\* entry of "a" (a failed load, a load, a re-check that found the snapshot),
\* every task has finished and the lock is free.
C13_Witness ==
    \E p, q \in Callers :
        /\ p # q /\ certKey[p] = "a" /\ certKey[q] = "a"
        /\ ret[p].done /\ ret[q].done
        /\ obs[p].locks = 1 /\ obs[p].loads = 1 /\ ret[p].err = NoErr
        /\ obs[q].locks = 1 /\ obs[q].loads = 0 /\ ret[q].err = NoErr
        /\ stats["a"].coldFails = 1
        /\ ~Entry("a").locked
        /\ reloads = EmptyBag

\* The reload tasks of key k that are in flight, counted with multiplicity.
InFlight(k) == BagCardinality([t \in {u \in BagToSet(reloads) : u.certKey = k} |->
                                   CopiesIn(t, reloads)])

\* C14: a Get that finds the entry stale at line 59 launches exactly one reload
\* task for its key, whatever reload tasks are already in flight: the launches
\* are not deduplicated, so the tasks in flight for a key grow by one with
\* every such Get.
C14_OneLaunchPerStaleGet ==
    [][\A p \in Callers :
          (pc[p] = "L59" /\ pc'[p] # "L59") =>
              IF heap[mngCert[p]].loadAt > 0 /\ now - heap[mngCert[p]].loadAt > reloadInterval
              THEN /\ obs'[p].spawns = 1
                   /\ InFlight(certKey[p])' = InFlight(certKey[p]) + 1
                   /\ reloads' = reloads (+)
                          SetToBag({[certKey |-> certKey[p], mngCert |-> cache[certKey[p]],
                                     pc |-> "L86", tlscert |-> NilCert]})
                   /\ stats'[certKey[p]].launched = stats[certKey[p]].launched + 1
              ELSE /\ obs'[p].spawns = 0
                   /\ reloads' = reloads]_vars

\* C14 witness: two Gets found "a" stale and two reload tasks for "a" are
\* inside LoadCertificateFromStore at once.
C14_Witness ==
    /\ stats["a"].launched = 2
    /\ InFlight("a") = 2
    /\ \E t \in BagToSet(reloads) : t.pc = "L86w" /\ t.certKey = "a" /\ CopiesIn(t, reloads) = 2
    /\ \E p, q \in Callers : p # q /\ ret[p].done /\ ret[q].done
                              /\ obs[p].spawns = 1 /\ obs[q].spawns = 1

\* C15 as stated: after a reload of a key has failed, no reload task is
\* launched for that key until more than reloadInterval has passed since the
\* failed attempt.
C15_NoLaunchBeforeInterval ==
    [][\A k \in Keys :
          (stats'[k].launched > stats[k].launched /\ stats[k].failedAt > 0) =>
              now - stats[k].failedAt > reloadInterval]_vars

\* C15 amended: a failed reload changes no entry, and a Get that comes after
\* it still returns the snapshot with a nil error and launches a reload task
\* exactly when the loadAt it reads is stale, however recent the failure.
C15_RetriedAtNextGet ==
    /\ [](\A p \in Callers :
            (obs[p].seenNow > 0 /\ obs[p].seenFailedAt > 0) =>
                /\ ret[p].err = NoErr
                /\ ret[p].cert # NilCert /\ ret[p].cert.key = certKey[p]
                /\ obs[p].spawns = IF SawStale(p) THEN 1 ELSE 0)
    /\ [][\A k \in Keys : stats'[k].failedAt # stats[k].failedAt => heap' = heap]_vars

\* C15 witness: a reload of "a" failed at time 302; a Get that read the entry
\* in the same second returned the old snapshot and launched a reload task.
C15_Witness ==
    \E p \in Callers :
        /\ ret[p].done /\ certKey[p] = "a"
        /\ obs[p].seenFailedAt = 302 /\ obs[p].seenNow = 302 /\ obs[p].seenLoadAt = 1
        /\ obs[p].spawns = 1
        /\ ret[p].cert = Cert("a", 1) /\ ret[p].err = NoErr
        /\ Entry("a").loadAt = 1

\* The lock a task waits for is held by a task of the same key.
HeldBySameKey(i, k) ==
    \/ \E q \in CallersInside(i) : certKey[q] = k
    \/ \E u \in ReloadsInside(i) : u.certKey = k

\* C16: operations on different keys never block each other: distinct keys
\* have distinct entries and locks, and a call or reload task of a key can
\* always take its next step unless it waits at Lock() for a lock held by a
\* task of the same key, whatever the tasks of the other keys hold or wait for.
C16_KeysIndependent ==
    /\ \A k1, k2 \in Keys : (cache[k1] # 0 /\ k1 # k2) => cache[k1] # cache[k2]
    /\ \A p \in Callers :
          InCall(p) =>
              \/ ENABLED Progress(p)
              \/ pc[p] = "L70" /\ HeldBySameKey(mngCert[p], certKey[p])
    /\ \A t \in BagToSet(reloads) :
          \/ ENABLED ReloadStep(t)
          \/ t.pc = "L91" /\ HeldBySameKey(t.mngCert, t.certKey)

\* C16 witness: the cold load of "a" holds a's lock inside
\* LoadCertificateFromStore while a Get for "b" has taken b's lock, loaded and
\* stored, and can take its last step.
C16_Witness ==
    \E p, q \in Callers :
        /\ certKey[p] = "a" /\ pc[p] = "L76w" /\ Entry("a").locked
        /\ certKey[q] = "b" /\ pc[q] = "L81" /\ Entry("b").locked
        /\ ENABLED L81(q)

\* The version of the most recent successful read of key k: the storage's
\* versions only grow, so it is the largest version read.
LastRead(k) == CHOOSE v \in {c.ver : c \in stats[k].loaded} :
                   \A c \in stats[k].loaded : c.ver <= v

\* No task is loading or writing for key k.
Quiet(k) == InFlight(k) = 0 /\ \A p \in Callers : InCall(p) => certKey[p] # k

\* C18: once the reload tasks of a key have all completed, the entry's
\* snapshot is the certificate of the most recent LoadCertificateFromStore
\* read for the key: a reload that read an older storage value has not
\* overwritten a snapshot installed from a newer read.
C18_NewestReadWins ==
    \A k \in Keys :
        (cache[k] # 0 /\ Entry(k).cert # NilCert /\ Quiet(k)) =>
            Entry(k).cert = Cert(k, LastRead(k))

\* C19: a hot-path reader sees a consistent (cert, loadAt) pair: a Get
\* launches a reload task only if the snapshot it read, and returns, was
\* stored more than reloadInterval before the Get read loadAt.
C19_LaunchOnlyForOldSnapshot ==
    \A p \in Callers :
        (obs[p].seenNow > 0 /\ obs[p].spawns = 1) =>
            /\ ret[p].cert = tlscert[p]
            /\ obs[p].seenNow - obs[p].seenStoredAt > reloadInterval

\* C20: an entry's snapshot, once non-nil, is never nil again, whatever Gets,
\* cold loads and reloads follow and whether they succeed or fail; and every
\* value it holds is a certificate that a successful LoadCertificateFromStore
\* call for the entry's key returned.
C20_SnapshotStaysPopulated ==
    /\ [](\A k \in Keys :
            (cache[k] # 0 /\ Entry(k).cert # NilCert) =>
                /\ Entry(k).cert \in stats[k].loaded
                /\ Entry(k).cert.key = k)
    /\ [][\A i \in 1..Len(heap) : heap[i].cert # NilCert => heap'[i].cert # NilCert]_vars

\* C20 witness: the snapshot of "a" was loaded cold at version 1, a reload
\* failed, a later reload read version 2 and stored it.
C20_Witness ==
    /\ cache["a"] # 0
    /\ Entry("a").cert = Cert("a", 2)
    /\ stats["a"].loaded = {Cert("a", 1), Cert("a", 2)}
    /\ stats["a"].failedAt > 0
    /\ stats["a"].coldLoads = 1
    /\ InFlight("a") = 0

(***************************************************************************)
(* Default options: properties                                             *)
(***************************************************************************)

\* C17: after setupDefaultOptions has run on a configuration whose Listen and
\* PIDFile were both empty, Listen is "127.0.0.1:8999" and PIDFile is
\* "ssl-cert-server.pid"; and a Listen value the user set is not overwritten.
C17_ListenAndPIDFileDefaults ==
    defaulted =>
        /\ (CfgRead.Listen = "" /\ CfgRead.PIDFile = "") =>
               (Cfg.Listen = "127.0.0.1:8999" /\ Cfg.PIDFile = "ssl-cert-server.pid")
        /\ CfgRead.Listen # "" => Cfg.Listen = CfgRead.Listen

====
